---- MODULE Spec2Model ----
(***************************************************************************)
(* Model of license_report.py: the Meraki partner license report.          *)
(*                                                                         *)
(* A Python string that the program parses, formats or compares is the     *)
(* sequence of the Unicode code points of its characters; Chars writes one *)
(* from its ASCII characters.  Strings the program only copies (names,     *)
(* license types, states, serials, ids) are TLA+ strings.  Python values   *)
(* of mixed type (a str, an int or None in the same dictionary slot) are   *)
(* tagged tuples <<"str", s>>, <<"int", n>>, <<"None">>.                    *)
(***************************************************************************)
EXTENDS Integers, Sequences, FiniteSets, TLC

(***************************************************************************)
(* Bounds of the model.                                                    *)
(***************************************************************************)
MaxOrgs == 2
MaxLicenses == 2
MaxSortLen == 3

(***************************************************************************)
(* Python values.                                                          *)
(***************************************************************************)
PyStr(s) == <<"str", s>>
PyInt(n) == <<"int", n>>
PyNone == <<"None">>
IsStr(v) == v[1] = "str"
IsNone(v) == v[1] = "None"

\* bool(v): None, the empty string and 0 are false
Truthy(v) ==
    IF IsNone(v) THEN FALSE
    ELSE IF IsStr(v) THEN Len(v[2]) > 0
    ELSE v[2] # 0

(***************************************************************************)
(* Characters.                                                             *)
(***************************************************************************)
\* the printable ASCII characters from code point 32 to 95 and from 97 to 126
AsciiLow ==
    <<" ", "!", "\"", "#", "$", "%", "&", "'", "(", ")", "*", "+", ",", "-", ".", "/",
      "0", "1", "2", "3", "4", "5", "6", "7", "8", "9", ":", ";", "<", "=", ">", "?",
      "@", "A", "B", "C", "D", "E", "F", "G", "H", "I", "J", "K", "L", "M", "N", "O",
      "P", "Q", "R", "S", "T", "U", "V", "W", "X", "Y", "Z", "[", "\\", "]", "^", "_">>
AsciiHigh ==
    <<"a", "b", "c", "d", "e", "f", "g", "h", "i", "j", "k", "l", "m", "n", "o",
      "p", "q", "r", "s", "t", "u", "v", "w", "x", "y", "z", "{", "|", "}", "~">>

\* ord(c) of one of these characters
ord ==
    [c \in {AsciiLow[k] : k \in 1..Len(AsciiLow)} \cup {AsciiHigh[k] : k \in 1..Len(AsciiHigh)} |->
       IF \E k \in 1..Len(AsciiLow) : AsciiLow[k] = c
       THEN 31 + (CHOOSE k \in 1..Len(AsciiLow) : AsciiLow[k] = c)
       ELSE 96 + (CHOOSE k \in 1..Len(AsciiHigh) : AsciiHigh[k] = c)]

\* the string with the ASCII characters s
Chars(s) == [i \in 1..Len(s) |-> ord[s[i]]]

NA == Chars(<<"N", "/", "A">>)

\* the character at position i of s, -1 past its end
At(s, i) == IF i >= 1 /\ i <= Len(s) THEN s[i] ELSE -1

\* c is one of the characters lo to hi
Between(c, lo, hi) == c >= ord[lo] /\ c <= ord[hi]

\* the zero of every run of ten decimal digits of Unicode (category Nd)
DigitZeros ==
    {48, 1632, 1776, 1984, 2406, 2534, 2662, 2790, 2918, 3046, 3174, 3302,
     3430, 3558, 3664, 3792, 3872, 4160, 4240, 6112, 6160, 6470, 6608, 6784,
     6800, 6992, 7088, 7232, 7248, 42528, 43216, 43264, 43472, 43504, 43600,
     44016, 65296, 66720, 68912, 69734, 69872, 69942, 70096, 70384, 70736,
     70864, 71248, 71360, 71472, 71904, 72016, 72784, 73040, 73120, 92768,
     92864, 93008, 120782, 120792, 120802, 120812, 120822, 123200, 123632,
     125264, 130032}

\* int(c) of every decimal digit
DigitValue ==
    [c \in UNION {z..(z + 9) : z \in DigitZeros} |->
       c - (CHOOSE z \in DigitZeros : c >= z /\ c <= z + 9)]

\* the regular expression \d: any Unicode decimal digit
IsDigit(c) == c \in DOMAIN DigitValue
\* int(c) of a decimal digit
DigitVal(c) == DigitValue[c]

\* the regular expression \s and str.isspace(): Unicode whitespace
Whitespace ==
    {9, 10, 11, 12, 13, 28, 29, 30, 31, 32, 133, 160, 5760} \cup (8192..8202)
      \cup {8232, 8233, 8239, 8287, 12288}
IsSpace(c) == c \in Whitespace

\* str.lower() of an ASCII string
Lowered(w) == [k \in 1..Len(w) |-> IF Between(w[k], "A", "Z") THEN w[k] + 32 ELSE w[k]]

\* c.lower() where that is a lower-case ASCII letter (an ASCII letter, or the
\* Kelvin sign, which lowers to k); any other character stands for itself
LowerChar(c) ==
    IF Between(c, "A", "Z") THEN c + 32
    ELSE IF c = 8490 THEN ord["k"]
    ELSE c

\* the lower-case ASCII letter c matches under re.IGNORECASE: as LowerChar,
\* and the long s matches s, the dotted capital and the dotless small i match i
FoldChar(c) ==
    IF c = 383 THEN ord["s"]
    ELSE IF c \in {304, 305} THEN ord["i"]
    ELSE LowerChar(c)

\* the n characters of s from position i, each through FoldChar
Folded(s, i, n) == [k \in 1..n |-> FoldChar(s[i + k - 1])]

\* calendar.month_abbr of the C locale
MonthAbbr ==
    <<Chars(<<"J", "a", "n">>), Chars(<<"F", "e", "b">>), Chars(<<"M", "a", "r">>),
      Chars(<<"A", "p", "r">>), Chars(<<"M", "a", "y">>), Chars(<<"J", "u", "n">>),
      Chars(<<"J", "u", "l">>), Chars(<<"A", "u", "g">>), Chars(<<"S", "e", "p">>),
      Chars(<<"O", "c", "t">>), Chars(<<"N", "o", "v">>), Chars(<<"D", "e", "c">>)>>
\* the names %b looks for, the abbreviations in lower case, with their index
a_month == [w \in {Lowered(MonthAbbr[m]) : m \in 1..12} |->
              CHOOSE m \in 1..12 : Lowered(MonthAbbr[m]) = w]

\* %b: a month abbreviation at position i, case ignored
IsMonth(s, i) == i + 2 <= Len(s) /\ Folded(s, i, 3) \in DOMAIN a_month
\* a_month.index(found.lower()) of the three characters at i, 0 when the
\* lowered text is not in the list
MonthVal(s, i) ==
    LET w == [k \in 1..3 |-> LowerChar(s[i + k - 1])]
    IN IF w \in DOMAIN a_month THEN a_month[w] ELSE 0

\* the time zone the process runs in, set by its environment (TZ) before
\* main() is entered and never changed by the program
VARIABLE zone

\* time.tzname and time.daylight for TZ unset or UTC, America/New_York,
\* Europe/Paris and Asia/Kolkata
Zones ==
    { [tzname |-> <<Chars(<<"U", "T", "C">>), Chars(<<"U", "T", "C">>)>>, daylight |-> FALSE],
      [tzname |-> <<Chars(<<"E", "S", "T">>), Chars(<<"E", "D", "T">>)>>, daylight |-> TRUE],
      [tzname |-> <<Chars(<<"C", "E", "T">>), Chars(<<"C", "E", "S", "T">>)>>, daylight |-> TRUE],
      [tzname |-> <<Chars(<<"I", "S", "T">>), Chars(<<"I", "S", "T">>)>>, daylight |-> FALSE] }

\* time.tzname and time.daylight, as _strptime reads them
tzname == zone.tzname
daylight == zone.daylight

\* the timezone names %Z accepts: utc, gmt and the names of the zone of the process
TzNames ==
    {Chars(<<"u", "t", "c">>), Chars(<<"g", "m", "t">>), Lowered(tzname[1])}
      \cup (IF daylight THEN {Lowered(tzname[2])} ELSE {})
\* their lengths, the longest first
TzLengths ==
    LET RECURSIVE Descending(_)
        Descending(ns) == IF ns = {} THEN <<>>
                          ELSE LET n == CHOOSE x \in ns : \A y \in ns : y <= x
                               IN <<n>> \o Descending(ns \ {n})
    IN Descending({Len(w) : w \in TzNames})

\* %Z: the length of the timezone name at position i (the longest that
\* matches, case ignored), 0 when there is none
RECURSIVE TzMatchFrom(_, _, _)
TzMatchFrom(s, i, k) ==
    IF k > Len(TzLengths) THEN 0
    ELSE IF i + TzLengths[k] - 1 <= Len(s) /\ Folded(s, i, TzLengths[k]) \in TzNames
         THEN TzLengths[k]
    ELSE TzMatchFrom(s, i, k + 1)
TzMatch(s, i) == TzMatchFrom(s, i, 1)

\* str(n) for an int
RECURSIVE NatStr(_)
NatStr(n) == IF n < 10 THEN <<ord["0"] + n>>
             ELSE NatStr(n \div 10) \o <<ord["0"] + (n % 10)>>
str(n) == IF n < 0 THEN <<ord["-"]>> \o NatStr(0 - n) ELSE NatStr(n)

\* n written with at least w digits, zero padded (strftime %d)
RECURSIVE Pad(_, _)
Pad(s, w) == IF Len(s) >= w THEN s ELSE Pad(<<ord["0"]>> \o s, w)

(***************************************************************************)
(* datetime: dates of the proleptic Gregorian calendar.                    *)
(***************************************************************************)
IsLeap(y) == (y % 4 = 0) /\ ((y % 100 # 0) \/ (y % 400 = 0))
DaysInMonth(y, m) ==
    IF m = 2 THEN (IF IsLeap(y) THEN 29 ELSE 28)
    ELSE IF m \in {4, 6, 9, 11} THEN 30 ELSE 31
RECURSIVE DaysBeforeMonth(_, _)
DaysBeforeMonth(y, m) ==
    IF m = 1 THEN 0 ELSE DaysBeforeMonth(y, m - 1) + DaysInMonth(y, m - 1)
DaysBeforeYear(y) ==
    LET p == y - 1 IN p * 365 + (p \div 4) - (p \div 100) + (p \div 400)
\* date.toordinal()
Ordinal(d) == DaysBeforeYear(d.Y) + DaysBeforeMonth(d.Y, d.M) + d.D

\* datetime.max, as a date: 9999-12-31
DatetimeMax == [Y |-> 9999, M |-> 12, D |-> 31]

ValueError == <<"ValueError">>
Parsed(d) == <<"ok", d>>
IsOk(r) == r[1] = "ok"

(***************************************************************************)
(* datetime.strptime: the format is a regular expression matched at the    *)
(* start of the string, case ignored; each directive is an alternation     *)
(* tried in order, a space of the format is \s+, and the whole string has  *)
(* to be used up.  The length a directive matches at position i is 0 when  *)
(* it does not match.                                                      *)
(***************************************************************************)
\* %d: 3[0-1]|[1-2]\d|0[1-9]|[1-9]| [1-9]
Match_d(s, i) ==
    LET a == At(s, i)
        b == At(s, i + 1)
    IN IF a = ord["3"] /\ Between(b, "0", "1") THEN 2
       ELSE IF Between(a, "1", "2") /\ IsDigit(b) THEN 2
       ELSE IF a = ord["0"] /\ Between(b, "1", "9") THEN 2
       ELSE IF Between(a, "1", "9") THEN 1
       ELSE IF a = ord[" "] /\ Between(b, "1", "9") THEN 2
       ELSE 0

\* %m: 1[0-2]|0[1-9]|[1-9]
Match_m(s, i) ==
    LET a == At(s, i)
        b == At(s, i + 1)
    IN IF a = ord["1"] /\ Between(b, "0", "2") THEN 2
       ELSE IF a = ord["0"] /\ Between(b, "1", "9") THEN 2
       ELSE IF Between(a, "1", "9") THEN 1
       ELSE 0

\* %H: 2[0-3]|[0-1]\d|\d
Match_H(s, i) ==
    LET a == At(s, i)
        b == At(s, i + 1)
    IN IF a = ord["2"] /\ Between(b, "0", "3") THEN 2
       ELSE IF Between(a, "0", "1") /\ IsDigit(b) THEN 2
       ELSE IF IsDigit(a) THEN 1
       ELSE 0

\* %M: [0-5]\d|\d
Match_M(s, i) ==
    LET a == At(s, i)
        b == At(s, i + 1)
    IN IF Between(a, "0", "5") /\ IsDigit(b) THEN 2
       ELSE IF IsDigit(a) THEN 1
       ELSE 0

\* %S: 6[0-1]|[0-5]\d|\d
Match_S(s, i) ==
    LET a == At(s, i)
        b == At(s, i + 1)
    IN IF a = ord["6"] /\ Between(b, "0", "1") THEN 2
       ELSE IF Between(a, "0", "5") /\ IsDigit(b) THEN 2
       ELSE IF IsDigit(a) THEN 1
       ELSE 0

\* %Y: \d\d\d\d
Match_Y(s, i) == IF \A k \in 0..3 : IsDigit(At(s, i + k)) THEN 4 ELSE 0

\* \s+ from position i: the position after the run of whitespace
RECURSIVE SkipSpaces(_, _)
SkipSpaces(s, i) == IF IsSpace(At(s, i)) THEN SkipSpaces(s, i + 1) ELSE i

\* int() of decimal digits
RECURSIVE NumVal(_)
NumVal(ds) == IF Len(ds) = 0 THEN 0
              ELSE NumVal(SubSeq(ds, 1, Len(ds) - 1)) * 10 + DigitVal(ds[Len(ds)])

\* int() of the n characters a directive matched at position i; the space
\* %d may begin with is skipped
IntAt(s, i, n) ==
    IF s[i] = ord[" "] THEN NumVal(SubSeq(s, i + 1, i + n - 1))
    ELSE NumVal(SubSeq(s, i, i + n - 1))

\* the date the datetime constructor accepts
ValidDate(y, m, d) == y >= 1 /\ m \in 1..12 /\ d >= 1 /\ d <= DaysInMonth(y, m)

\* the formats of lines 46, 185/196 and 102, item by item
FormatDisplay == <<"%b", " ", "%d", ",", " ", "%Y">>
FormatDisplayTz == FormatDisplay \o <<" ", "%Z">>
FormatIso == <<"%Y", "-", "%m", "-", "%d", "T", "%H", ":", "%M", ":", "%S", "Z">>

Directives == {"%b", "%d", "%m", "%Y", "%H", "%M", "%S", "%Z"}

\* the length one item of the format matches at position i: a directive, a
\* space (a run of whitespace), or a literal character, case ignored
MatchItem(s, i, item) ==
    CASE item = "%b" -> IF IsMonth(s, i) THEN 3 ELSE 0
      [] item = "%d" -> Match_d(s, i)
      [] item = "%m" -> Match_m(s, i)
      [] item = "%Y" -> Match_Y(s, i)
      [] item = "%H" -> Match_H(s, i)
      [] item = "%M" -> Match_M(s, i)
      [] item = "%S" -> Match_S(s, i)
      [] item = "%Z" -> TzMatch(s, i)
      [] item = " " -> SkipSpaces(s, i) - i
      [] OTHER -> IF FoldChar(At(s, i)) = FoldChar(ord[item]) THEN 1 ELSE 0

\* nothing found yet: every directive at position 0
NoneFound == [x \in Directives |-> <<0, 0>>]

\* the format matched against s item by item, from item k at position i:
\* where each directive was found and where the match ends, or no match;
\* ScanItem goes on after item k has matched n characters
RECURSIVE Scan(_, _, _, _, _), ScanItem(_, _, _, _, _, _)
Scan(s, i, fmt, k, found) ==
    IF k > Len(fmt) THEN [matched |-> TRUE, end |-> i, found |-> found]
    ELSE ScanItem(s, i, fmt, k, found, MatchItem(s, i, fmt[k]))
ScanItem(s, i, fmt, k, found, n) ==
    IF n = 0 THEN [matched |-> FALSE, end |-> i, found |-> found]
    ELSE Scan(s, i + n, fmt, k + 1,
              IF fmt[k] \in Directives THEN [found EXCEPT ![fmt[k]] = <<i, n>>] ELSE found)

\* int() of what directive x found, dflt when the format has no x
Field(s, found, x, dflt) ==
    IF found[x][2] = 0 THEN dflt ELSE IntAt(s, found[x][1], found[x][2])

\* the datetime of a match: the month looked up by name when %b found it,
\* and the datetime constructor, which takes no second above 59
Convert(s, found) ==
    LET y == Field(s, found, "%Y", 1900)
        m == IF found["%b"][2] = 0 THEN Field(s, found, "%m", 1)
             ELSE MonthVal(s, found["%b"][1])
        d == Field(s, found, "%d", 1)
    IN IF ValidDate(y, m, d) /\ Field(s, found, "%S", 0) <= 59
       THEN Parsed([Y |-> y, M |-> m, D |-> d])
       ELSE ValueError

\* the result of a match r on s: nothing of s may remain
Converted(s, r) ==
    IF ~r.matched \/ r.end # Len(s) + 1 THEN ValueError ELSE Convert(s, r.found)

\* datetime.strptime(s, fmt), the date part of the result
Strptime(s, fmt) == Converted(s, Scan(s, 1, fmt, 1, NoneFound))

\* datetime.strptime(s, '%b %d, %Y'), and with withTz '%b %d, %Y %Z'
StrptimeDisplay(s, withTz) ==
    Strptime(s, IF withTz THEN FormatDisplayTz ELSE FormatDisplay)

\* datetime.strptime(s, '%Y-%m-%dT%H:%M:%SZ')
StrptimeIso(s) == Strptime(s, FormatIso)

\* d.strftime('%b %d, %Y'): the day is zero padded to two digits, the year is
\* written as it is
StrftimeDisplay(d) ==
    MonthAbbr[d.M] \o Chars(<<" ">>) \o Pad(str(d.D), 2) \o Chars(<<",", " ">>) \o str(d.Y)

\* s.replace('UTC', ''): every occurrence of UTC removed, left to right
RECURSIVE ReplaceUTC(_)
ReplaceUTC(s) ==
    IF Len(s) = 0 THEN <<>>
    ELSE IF Len(s) >= 3 /\ s[1] = ord["U"] /\ s[2] = ord["T"] /\ s[3] = ord["C"]
         THEN ReplaceUTC(SubSeq(s, 4, Len(s)))
    ELSE <<s[1]>> \o ReplaceUTC(Tail(s))

\* s.strip(): leading and trailing whitespace removed
RECURSIVE Strip(_)
Strip(s) ==
    IF Len(s) = 0 THEN s
    ELSE IF IsSpace(s[1]) THEN Strip(Tail(s))
    ELSE IF IsSpace(s[Len(s)]) THEN Strip(SubSeq(s, 1, Len(s) - 1))
    ELSE s

(***************************************************************************)
(* Inputs: what the external collaborators can answer.                     *)
(***************************************************************************)
Names == {"Acme", "Bolt"}
Models == {"co-term", "per-device", "subscription"}

\* getOrganizations(): organizations with distinct ids
\* the names organizations can have: the program only copies and compares
\* them, so the first organization is the one called Acme
NameLists(n) == {nm \in [1..n -> Names] : n = 0 \/ nm[1] = "Acme"}

OrgLists ==
    UNION { { [i \in 1..n |-> [id |-> i, name |-> nm[i], licensing |-> [model |-> md[i]]]] :
                nm \in NameLists(n), md \in [1..n -> Models] } : n \in 0..MaxOrgs }

\* 'Oct 6, 2025 UTC', 'Sep 1, 2024 UTC', 'Jan 1, 2026 GMT', 'Oct 6, 2025 EST'
DateUTC1 == Chars(<<"O", "c", "t", " ", "6", ",", " ", "2", "0", "2", "5", " ", "U", "T", "C">>)
DateUTC2 == Chars(<<"S", "e", "p", " ", "1", ",", " ", "2", "0", "2", "4", " ", "U", "T", "C">>)
DateGMT ==  Chars(<<"J", "a", "n", " ", "1", ",", " ", "2", "0", "2", "6", " ", "G", "M", "T">>)
DateEST ==  Chars(<<"O", "c", "t", " ", "6", ",", " ", "2", "0", "2", "5", " ", "E", "S", "T">>)

\* getOrganizationLicensesOverview(org_id)
OverviewChoices ==
    { [status |-> "OK", expirationDate |-> DateUTC1],
      [status |-> "License Expired", expirationDate |-> DateUTC2],
      [status |-> "OK", expirationDate |-> DateEST],
      [status |-> "License Required", expirationDate |-> NA] }

\* datetime.utcnow(): date, second of the day, microsecond
NowChoices ==
    << [Y |-> 2025, M |-> 10, D |-> 1, sec |-> 0, usec |-> 0] >>

\* '2025-10-06T00:00:00Z', '2024-09-01T00:00:00Z', '2025-10-06',
\* '0999-01-01T00:00:00Z'
Iso1 == Chars(<<"2", "0", "2", "5", "-", "1", "0", "-", "0", "6", "T",
                "0", "0", ":", "0", "0", ":", "0", "0", "Z">>)
Iso2 == Chars(<<"2", "0", "2", "4", "-", "0", "9", "-", "0", "1", "T",
                "0", "0", ":", "0", "0", ":", "0", "0", "Z">>)
IsoDateOnly == Chars(<<"2", "0", "2", "5", "-", "1", "0", "-", "0", "6">>)
IsoYear999 == Chars(<<"0", "9", "9", "9", "-", "0", "1", "-", "0", "1", "T",
                      "0", "0", ":", "0", "0", ":", "0", "0", "Z">>)

\* entries of getOrganizationLicenses(org_id, total_pages='all')
LicenseChoices ==
    { [licenseType |-> "ENT", state |-> "unused", expirationDate |-> PyNone,
       durationInDays |-> PyInt(365), deviceSerial |-> PyNone, networkId |-> PyNone],
      [licenseType |-> "MX64-ENT", state |-> "unused", expirationDate |-> PyStr(<<>>),
       durationInDays |-> PyInt(365), deviceSerial |-> PyNone, networkId |-> PyNone],
      [licenseType |-> "MR-ENT", state |-> "active", expirationDate |-> PyStr(Iso1),
       durationInDays |-> PyInt(30), deviceSerial |-> PyStr("Q2XX-1"), networkId |-> PyStr("N_1")],
      [licenseType |-> "MV-ENT", state |-> "expired", expirationDate |-> PyStr(Iso2),
       durationInDays |-> PyInt(0), deviceSerial |-> PyNone, networkId |-> PyStr("N_2")],
      [licenseType |-> "MT-ENT", state |-> "active", expirationDate |-> PyStr(Iso1),
       durationInDays |-> PyInt(90), deviceSerial |-> PyStr("Q2XX-4"), networkId |-> PyNone],
      [licenseType |-> "MG-ENT", state |-> "active", expirationDate |-> PyStr(IsoDateOnly),
       durationInDays |-> PyInt(30), deviceSerial |-> PyStr("Q2XX-3"), networkId |-> PyStr("N_1")],
      [licenseType |-> "MS-ENT", state |-> "expired", expirationDate |-> PyStr(IsoYear999),
       durationInDays |-> PyInt(365), deviceSerial |-> PyStr("Q2XX-5"), networkId |-> PyStr("N_1")] }

LicenseLists(n) == UNION { [1..k -> LicenseChoices] : k \in 0..n }

APIError == <<"APIError">>
\* getNetwork(networkId): the network, or a failed request; a request for
\* no network (GET /networks/None) finds nothing
NetworkChoices(networkId) ==
    IF networkId = PyStr("N_1") THEN {<<"ok", [name |-> PyStr("Branch")]>>, APIError}
    ELSE IF networkId = PyStr("N_2") THEN {<<"ok", [name |-> PyStr("HQ")]>>, APIError}
    ELSE {APIError}

(***************************************************************************)
(* The program's functions.                                                *)
(***************************************************************************)
\* (target_date - current_date).days, target_date at midnight
DaysDifference(target, current) ==
    LET secs == (Ordinal(target) - Ordinal(current)) * 86400 - current.sec
    IN (IF current.usec > 0 THEN secs - 1 ELSE secs) \div 86400

\* the comparison of line 52 as >= 0
get_days_remaining_ge(expiration_date, current_date) ==
    LET target_date == StrptimeDisplay(expiration_date, TRUE)
    IN IF ~IsOk(target_date) THEN ValueError
       ELSE LET days_difference == DaysDifference(target_date[2], current_date)
            IN <<"ok", IF days_difference >= 0 THEN str(days_difference) ELSE NA>>

get_days_remaining(expiration_date, current_date) ==
    LET target_date == StrptimeDisplay(expiration_date, TRUE)
    IN IF ~IsOk(target_date) THEN ValueError
       ELSE LET days_difference == DaysDifference(target_date[2], current_date)
            IN <<"ok", IF days_difference > 0 THEN str(days_difference) ELSE NA>>

CoTermColumns ==
    <<"Org. Name", "Org. ID", "License Status", "License Expiration", "Days Remaining">>

co_term_license(org_name, org_id, license_overview, current_date) ==
    LET expiration_date == license_overview.expirationDate
        days == get_days_remaining(expiration_date, current_date)
    IN IF ~IsOk(days) THEN ValueError
       ELSE <<"ok",
              [k \in {CoTermColumns[c] : c \in 1..Len(CoTermColumns)} |->
                 CASE k = "Org. Name" -> PyStr(org_name)
                   [] k = "Org. ID" -> PyInt(org_id)
                   [] k = "License Status" -> PyStr(license_overview.status)
                   [] k = "License Expiration" -> PyStr(Strip(ReplaceUTC(expiration_date)))
                   [] k = "Days Remaining" -> PyStr(days[2])]>>

PerDeviceColumns ==
    <<"Org. Name", "Org. ID", "License Type", "License Status", "License Expiration",
      "Days Remaining", "Associated Device", "Associated Network">>

\* the loop body's dictionary before the expirationDate test
LicenseInfoDefault(org_name, org_id, license) ==
    [k \in {PerDeviceColumns[c] : c \in 1..Len(PerDeviceColumns)} |->
       CASE k = "Org. Name" -> PyStr(org_name)
         [] k = "Org. ID" -> PyInt(org_id)
         [] k = "License Type" -> PyStr(license.licenseType)
         [] k = "License Status" -> PyStr(license.state)
         [] OTHER -> PyStr(NA)]

\* the dictionary after the branch taken when expirationDate is truthy
LicenseInfoFilled(license_info, license, datetime_obj, network) ==
    [k \in DOMAIN license_info |->
       CASE k = "License Expiration" -> PyStr(StrftimeDisplay(datetime_obj))
         [] k = "Days Remaining" -> license.durationInDays
         [] k = "Associated Device" -> license.deviceSerial
         [] k = "Associated Network" -> network.name
         [] OTHER -> license_info[k]]

\* the loop body with the getNetwork call moved before the expirationDate test
PerDeviceTurnHoisted(acc, org_name, org_id, license, network) ==
    LET license_info == LicenseInfoDefault(org_name, org_id, license)
        called == <<license.networkId>>
    IN IF ~IsOk(network)
       THEN [raised |-> "APIError", calls |-> called, per_device_licenses |-> acc]
       ELSE IF Truthy(license.expirationDate)
       THEN LET datetime_obj == StrptimeIso(license.expirationDate[2])
            IN IF ~IsOk(datetime_obj)
               THEN [raised |-> "ValueError", calls |-> called, per_device_licenses |-> acc]
               ELSE [raised |-> "none", calls |-> called,
                     per_device_licenses |->
                        Append(acc, LicenseInfoFilled(license_info, license,
                                                      datetime_obj[2], network[2]))]
       ELSE [raised |-> "none", calls |-> called,
             per_device_licenses |-> Append(acc, license_info)]

\* the loop body with the append of line 116 inside the expirationDate branch
PerDeviceTurnAppendInIf(acc, org_name, org_id, license, network) ==
    LET license_info == LicenseInfoDefault(org_name, org_id, license)
    IN IF Truthy(license.expirationDate)
       THEN LET datetime_obj == StrptimeIso(license.expirationDate[2])
            IN IF ~IsOk(datetime_obj)
               THEN [raised |-> "ValueError", calls |-> <<>>, per_device_licenses |-> acc]
               ELSE IF ~IsOk(network)
               THEN [raised |-> "APIError", calls |-> <<license.networkId>>,
                     per_device_licenses |-> acc]
               ELSE [raised |-> "none", calls |-> <<license.networkId>>,
                     per_device_licenses |->
                        Append(acc, LicenseInfoFilled(license_info, license,
                                                      datetime_obj[2], network[2]))]
       ELSE [raised |-> "none", calls |-> <<>>, per_device_licenses |-> acc]

\* one turn of the loop over the licenses: the list after it, the getNetwork
\* calls it made and the exception it raised; network is what getNetwork
\* answers when it is called
PerDeviceTurn(acc, org_name, org_id, license, network) ==
    LET license_info == LicenseInfoDefault(org_name, org_id, license)
    IN IF Truthy(license.expirationDate)
       THEN LET datetime_obj == StrptimeIso(license.expirationDate[2])
            IN IF ~IsOk(datetime_obj)
               THEN [raised |-> "ValueError", calls |-> <<>>, per_device_licenses |-> acc]
               ELSE IF ~IsOk(network)
               THEN [raised |-> "APIError", calls |-> <<license.networkId>>,
                     per_device_licenses |-> acc]
               ELSE [raised |-> "none", calls |-> <<license.networkId>>,
                     per_device_licenses |->
                        Append(acc, LicenseInfoFilled(license_info, license,
                                                      datetime_obj[2], network[2]))]
       ELSE [raised |-> "none", calls |-> <<>>,
             per_device_licenses |-> Append(acc, license_info)]

\* the append of line 163 as an assignment of a one-element list
AppendCoTermAssign(bucket, license_info) == <<license_info>>
\* coterm_licenses.append(license_info)
AppendCoTerm(bucket, license_info) == Append(bucket, license_info)

(***************************************************************************)
(* sorted(items, key=...): stable, ascending by the parsed expiration.     *)
(***************************************************************************)
\* the key with datetime.min in the place of datetime.max
SortKeyMin(item) ==
    IF item["License Expiration"] # PyStr(NA)
    THEN LET d == StrptimeDisplay(item["License Expiration"][2], FALSE)
         IN IF IsOk(d) THEN <<"ok", <<Ordinal(d[2]), 0>>>> ELSE ValueError
    ELSE <<"ok", <<1, 0>>>>

\* the key of one item: <<day, 0>>, or datetime.max, the last instant of its day
SortKey(item) ==
    IF item["License Expiration"] # PyStr(NA)
    THEN LET d == StrptimeDisplay(item["License Expiration"][2], FALSE)
         IN IF IsOk(d) THEN <<"ok", <<Ordinal(d[2]), 0>>>> ELSE ValueError
    ELSE <<"ok", <<Ordinal(DatetimeMax), 1>>>>

KeyLess(a, b) == a[1] < b[1] \/ (a[1] = b[1] /\ a[2] < b[2])

\* the pair of an item and its key put into the sorted sequence s after every
\* pair whose key is not greater
RECURSIVE Insert(_, _)
Insert(s, pair) ==
    IF Len(s) = 0 THEN <<pair>>
    ELSE IF KeyLess(pair.key, s[Len(s)].key)
         THEN Insert(SubSeq(s, 1, Len(s) - 1), pair) \o <<s[Len(s)]>>
         ELSE s \o <<pair>>

RECURSIVE InsertionSort(_)
InsertionSort(pairs) ==
    IF Len(pairs) = 0 THEN <<>>
    ELSE Insert(InsertionSort(SubSeq(pairs, 1, Len(pairs) - 1)), pairs[Len(pairs)])

\* the items in the order of their keys
Undecorated(pairs) == [i \in 1..Len(pairs) |-> pairs[i].item]

\* the sort once every key is computed
SortedByKeys(items, keys) ==
    IF \E i \in 1..Len(items) : ~IsOk(keys[i]) THEN ValueError
    ELSE <<"ok", Undecorated(InsertionSort([i \in 1..Len(items) |->
                                              [key |-> keys[i][2], item |-> items[i]]]))>>

\* sorted(items, key=...): the key of every item is computed once, then the
\* items are put in the order of their keys
SortedByExpiration(items) ==
    SortedByKeys(items, [i \in 1..Len(items) |-> SortKey(items[i])])

(***************************************************************************)
(* pandas: DataFrame, ExcelWriter, to_excel.                               *)
(***************************************************************************)
\* pd.DataFrame(list of dicts): the columns are the keys of the dictionaries,
\* in the order the dictionary literal gives them; no dictionary, no column
DataFrame(rows, keys) ==
    [columns |-> IF Len(rows) = 0 THEN <<>> ELSE keys, rows |-> rows]

\* the position of the sheet named sheet_name, 0 when there is none
SheetIndex(book, sheet_name) ==
    IF \E i \in 1..Len(book) : book[i].name = sheet_name
    THEN CHOOSE i \in 1..Len(book) : book[i].name = sheet_name
    ELSE 0

\* df.to_excel(writer, sheet_name=..., index=False): a header row when the
\* frame has columns, then the rows; a sheet of that name is written over
ToExcel(book, df, sheet_name) ==
    LET at == SheetIndex(book, sheet_name)
        fresh == [name |-> sheet_name, header |-> df.columns, rows |-> df.rows]
    IN IF at = 0 THEN book \o <<fresh>>
       ELSE LET old == book[at]
                over == [name |-> sheet_name,
                         header |-> IF Len(df.columns) > 0 THEN df.columns ELSE old.header,
                         rows |-> df.rows \o SubSeq(old.rows, Len(df.rows) + 1, Len(old.rows))]
            IN [book EXCEPT ![at] = over]

NoFile == <<"no file">>
EmptyFile == <<"empty file">>
Workbook(book) == <<"workbook", book>>

(***************************************************************************)
(* main(): the state of one run.                                           *)
(***************************************************************************)
VARIABLES
    orgs,                 \* getOrganizations()
    pc,                   \* where the run is
    counter,              \* the organization the dispatch loop is at
    coterm_licenses,      \* the co-term bucket
    per_device_licenses,  \* the per-device bucket: one list per organization
    licenses,             \* per_device_license: the fetched license list
    lic_pos,              \* per_device_license: the entry the loop is at
    org_licenses,         \* per_device_license: its local per_device_licenses
    fetched,              \* the license lists of the organizations done
    fetched_total,        \* license entries fetched so far
    overview_calls,       \* getOrganizationLicensesOverview calls (org ids)
    licenses_calls,       \* getOrganizationLicenses calls (org ids)
    network_calls,        \* getNetwork calls (network ids)
    sheets,               \* the writer's sheets
    sheet_pos,            \* the per-device list the sheet loop is at
    artifact,             \* the report file
    error,                \* the exception that ended the run
    fn_pc, fn_args, fn_result   \* one function called on its own

runVars == <<orgs, pc, counter, coterm_licenses, per_device_licenses, licenses, lic_pos,
             org_licenses, fetched, fetched_total, overview_calls,
             licenses_calls, network_calls, sheets, sheet_pos, artifact, error>>
fnVars == <<fn_pc, fn_args, fn_result>>
vars == <<runVars, fnVars, zone>>

RunInit(start) ==
    /\ pc = start
    /\ counter = 1
    /\ coterm_licenses = <<>>
    /\ per_device_licenses = <<>>
    /\ licenses = <<>>
    /\ lic_pos = 1
    /\ org_licenses = <<>>
    /\ fetched = <<>>
    /\ fetched_total = 0
    /\ overview_calls = <<>>
    /\ licenses_calls = <<>>
    /\ network_calls = <<>>
    /\ sheets = <<>>
    /\ sheet_pos = 1
    /\ artifact = NoFile
    /\ error = "none"

\* the zones a whole run is followed in
RunZones == {z \in Zones : z.tzname[1] \in {Chars(<<"U", "T", "C">>), Chars(<<"E", "S", "T">>)}}

\* main() is entered: nothing is fetched yet
Init ==
    /\ zone \in RunZones
    /\ orgs = <<>>
    /\ RunInit("start")
    /\ fn_pc = "off" /\ fn_args = <<>> /\ fn_result = <<>>

AtOrg(model_is) ==
    /\ pc = "dispatch"
    /\ counter <= Len(orgs)
    /\ model_is[orgs[counter].licensing.model]

\* an exception before the writer is opened ends the run
Raise(e) ==
    /\ pc' = "failed"
    /\ error' = e

\* an exception inside the with block: ExcelWriter.__exit__ closes the writer,
\* which saves the sheets written so far; a book without sheets cannot be saved
\* by every engine, and the file opened for it stays as it is
RaiseInWriter(e) ==
    /\ pc' = "failed"
    /\ error' = e
    /\ artifact' \in IF Len(sheets) = 0 THEN {EmptyFile, Workbook(sheets)}
                    ELSE {Workbook(sheets)}

\* getOrganizations() answers: the list the dispatch loop goes through
GetOrganizations ==
    /\ pc = "start"
    /\ orgs' \in OrgLists
    /\ pc' = "dispatch"
    /\ UNCHANGED <<counter, coterm_licenses, per_device_licenses, licenses, lic_pos,
                   org_licenses, fetched, fetched_total, overview_calls, licenses_calls,
                   network_calls, sheets, sheet_pos, artifact, error, fnVars, zone>>

\* getOrganizations() fails: the run ends before anything else is done
OrganizationsFails ==
    /\ pc = "start"
    /\ Raise("APIError")
    /\ UNCHANGED <<orgs, counter, coterm_licenses, per_device_licenses, licenses, lic_pos,
                   org_licenses, fetched, fetched_total, overview_calls, licenses_calls,
                   network_calls, sheets, sheet_pos, artifact, fnVars, zone>>

\* the test of line 157 as: not per-device
IsCoTermElse == [m \in Models |-> m # "per-device"]
IsCoTerm == [m \in Models |-> m = "co-term"]
IsPerDevice == [m \in Models |-> m = "per-device"]
IsOther == [m \in Models |-> m \notin {"co-term", "per-device"}]

\* the loop body for a co-term organization
CoTermOrg ==
    /\ AtOrg(IsCoTerm)
    /\ \E license_overview \in OverviewChoices, t \in 1..Len(NowChoices) :
         /\ overview_calls' = Append(overview_calls, orgs[counter].id)
         /\ \E license_info \in {co_term_license(orgs[counter].name, orgs[counter].id,
                                                    license_overview, NowChoices[t])} :
              IF IsOk(license_info)
              THEN /\ coterm_licenses' = AppendCoTerm(coterm_licenses, license_info[2])
                   /\ counter' = counter + 1
                   /\ UNCHANGED <<pc, error>>
              ELSE /\ Raise("ValueError")
                   /\ UNCHANGED <<coterm_licenses, counter>>
    /\ UNCHANGED <<orgs, per_device_licenses, licenses, lic_pos, org_licenses, fetched,
                   fetched_total, licenses_calls, network_calls, sheets, sheet_pos,
                   artifact, fnVars, zone>>

\* getOrganizationLicensesOverview fails
OverviewFails ==
    /\ AtOrg(IsCoTerm)
    /\ overview_calls' = Append(overview_calls, orgs[counter].id)
    /\ Raise("APIError")
    /\ UNCHANGED <<orgs, counter, coterm_licenses, per_device_licenses, licenses, lic_pos,
                   org_licenses, fetched, fetched_total, licenses_calls,
                   network_calls, sheets, sheet_pos, artifact, fnVars, zone>>

\* per_device_license is entered: the license list is fetched
PerDeviceFetch ==
    /\ AtOrg(IsPerDevice)
    /\ \E ls \in LicenseLists(MaxLicenses - fetched_total) :
         /\ licenses' = ls
         /\ fetched_total' = fetched_total + Len(ls)
    /\ licenses_calls' = Append(licenses_calls, orgs[counter].id)
    /\ lic_pos' = 1
    /\ org_licenses' = <<>>
    /\ pc' = "per_device"
    /\ UNCHANGED <<orgs, counter, coterm_licenses, per_device_licenses, fetched,
                   overview_calls, network_calls, sheets, sheet_pos, artifact, error,
                   fnVars, zone>>

\* getOrganizationLicenses fails
LicensesFails ==
    /\ AtOrg(IsPerDevice)
    /\ licenses_calls' = Append(licenses_calls, orgs[counter].id)
    /\ Raise("APIError")
    /\ UNCHANGED <<orgs, counter, coterm_licenses, per_device_licenses, licenses, lic_pos,
                   org_licenses, fetched, fetched_total, overview_calls,
                   network_calls, sheets, sheet_pos, artifact, fnVars, zone>>

\* one turn of the loop over the licenses
PerDeviceEntry ==
    /\ pc = "per_device"
    /\ lic_pos <= Len(licenses)
    /\ \E network \in NetworkChoices(licenses[lic_pos].networkId) :
         \E turn \in {PerDeviceTurn(org_licenses, orgs[counter].name, orgs[counter].id,
                                     licenses[lic_pos], network)} :
            /\ network_calls' = network_calls \o turn.calls
            /\ org_licenses' = turn.per_device_licenses
            /\ IF turn.raised = "none"
               THEN /\ lic_pos' = lic_pos + 1
                    /\ UNCHANGED <<pc, error>>
               ELSE /\ Raise(turn.raised)
                    /\ UNCHANGED lic_pos
    /\ UNCHANGED <<orgs, counter, coterm_licenses, per_device_licenses, licenses, fetched,
                   fetched_total, overview_calls, licenses_calls, sheets,
                   sheet_pos, artifact, fnVars, zone>>

\* per_device_license returns and main appends its list to the bucket
PerDeviceReturn ==
    /\ pc = "per_device"
    /\ lic_pos > Len(licenses)
    /\ per_device_licenses' = Append(per_device_licenses, org_licenses)
    /\ fetched' = Append(fetched, licenses)
    /\ licenses' = <<>>
    /\ org_licenses' = <<>>
    /\ lic_pos' = 1
    /\ counter' = counter + 1
    /\ pc' = "dispatch"
    /\ UNCHANGED <<orgs, coterm_licenses, fetched_total, overview_calls,
                   licenses_calls, network_calls, sheets, sheet_pos, artifact, error,
                   fnVars, zone>>

\* the loop body for any other licensing model: neither branch is taken
SkipOrg ==
    /\ AtOrg(IsOther)
    /\ counter' = counter + 1
    /\ UNCHANGED <<orgs, pc, coterm_licenses, per_device_licenses, licenses, lic_pos,
                   org_licenses, fetched, fetched_total, overview_calls,
                   licenses_calls, network_calls, sheets, sheet_pos, artifact, error,
                   fnVars, zone>>

\* the loop is over: pd.ExcelWriter(destination_file) opens the file
OpenWriter ==
    /\ pc = "dispatch"
    /\ counter > Len(orgs)
    /\ artifact' = EmptyFile
    /\ pc' = "coterm_sheet"
    /\ UNCHANGED <<orgs, counter, coterm_licenses, per_device_licenses, licenses, lic_pos,
                   org_licenses, fetched, fetched_total, overview_calls,
                   licenses_calls, network_calls, sheets, sheet_pos, error, fnVars, zone>>

\* the co-term sheet
WriteCoTermSheet ==
    /\ pc = "coterm_sheet"
    /\ \E coterm_licenses_sorted \in {SortedByExpiration(coterm_licenses)} :
          IF IsOk(coterm_licenses_sorted)
          THEN /\ sheets' = ToExcel(sheets,
                                    DataFrame(coterm_licenses_sorted[2], CoTermColumns),
                                    "Co-term Customers")
               /\ sheet_pos' = 1
               /\ pc' = "org_sheets"
               /\ UNCHANGED <<artifact, error>>
          ELSE /\ RaiseInWriter("ValueError")
               /\ UNCHANGED <<sheets, sheet_pos>>
    /\ UNCHANGED <<orgs, counter, coterm_licenses, per_device_licenses, licenses, lic_pos,
                   org_licenses, fetched, fetched_total, overview_calls,
                   licenses_calls, network_calls, fnVars, zone>>

\* one turn of the loop over the per-device bucket
WriteOrgSheet ==
    /\ pc = "org_sheets"
    /\ sheet_pos <= Len(per_device_licenses)
    /\ \E org_licenses_sorted \in {SortedByExpiration(per_device_licenses[sheet_pos])} :
          IF ~IsOk(org_licenses_sorted)
          THEN /\ RaiseInWriter("ValueError")
               /\ UNCHANGED <<sheets, sheet_pos>>
          ELSE IF Len(org_licenses_sorted[2]) = 0
          THEN /\ RaiseInWriter("IndexError")
               /\ UNCHANGED <<sheets, sheet_pos>>
          ELSE /\ sheets' = ToExcel(sheets,
                                    DataFrame(org_licenses_sorted[2], PerDeviceColumns),
                                    org_licenses_sorted[2][1]["Org. Name"][2])
               /\ sheet_pos' = sheet_pos + 1
               /\ UNCHANGED <<pc, artifact, error>>
    /\ UNCHANGED <<orgs, counter, coterm_licenses, per_device_licenses, licenses, lic_pos,
                   org_licenses, fetched, fetched_total, overview_calls,
                   licenses_calls, network_calls, fnVars, zone>>

\* the with block is left: the writer is closed and the file saved
CloseWriter ==
    /\ pc = "org_sheets"
    /\ sheet_pos > Len(per_device_licenses)
    /\ artifact' = Workbook(sheets)
    /\ pc' = "done"
    /\ UNCHANGED <<orgs, counter, coterm_licenses, per_device_licenses, licenses, lic_pos,
                   org_licenses, fetched, fetched_total, overview_calls,
                   licenses_calls, network_calls, sheets, sheet_pos, error, fnVars, zone>>

Next ==
    \/ GetOrganizations
    \/ OrganizationsFails
    \/ CoTermOrg
    \/ OverviewFails
    \/ PerDeviceFetch
    \/ LicensesFails
    \/ PerDeviceEntry
    \/ PerDeviceReturn
    \/ SkipOrg
    \/ OpenWriter
    \/ WriteCoTermSheet
    \/ WriteOrgSheet
    \/ CloseWriter

Spec == Init /\ [][Next]_vars

(***************************************************************************)
(* sorted(...) called on its own, on every short list of records.          *)
(***************************************************************************)
DisplayChoices ==
    { NA,
      Strip(ReplaceUTC(DateUTC1)),
      Strip(ReplaceUTC(DateUTC2)),
      StrftimeDisplay([Y |-> 2025, M |-> 10, D |-> 6]),
      Strip(ReplaceUTC(DateGMT)),
      \* 'oct<TAB>07, 2025'
      Chars(<<"o", "c", "t">>) \o <<9>> \o Chars(<<"0", "7", ",", " ", "2", "0", "2", "5">>),
      \* 'Jan 01, 999', what 0999-01-01T00:00:00Z is formatted to
      StrftimeDisplay([Y |-> 999, M |-> 1, D |-> 1]) }

SortItem(i, display) ==
    [k \in {CoTermColumns[c] : c \in 1..Len(CoTermColumns)} |->
       CASE k = "Org. Name" -> PyStr("Acme")
         [] k = "Org. ID" -> PyInt(i)
         [] k = "License Status" -> PyStr("OK")
         [] k = "License Expiration" -> PyStr(display)
         [] k = "Days Remaining" -> PyStr(NA)]

SortInputs ==
    UNION { { [i \in 1..n |-> SortItem(i, ds[i])] : ds \in [1..n -> DisplayChoices] } :
              n \in 0..MaxSortLen }

InitSort ==
    /\ zone \in Zones
    /\ orgs = <<>>
    /\ RunInit("off")
    /\ fn_pc = "call" /\ fn_args \in SortInputs /\ fn_result = <<>>

CallSorted ==
    /\ fn_pc = "call"
    /\ fn_result' = SortedByExpiration(fn_args)
    /\ fn_pc' = "return"
    /\ UNCHANGED <<runVars, fn_args, zone>>

NextSort == CallSorted

SpecSort == InitSort /\ [][NextSort]_vars

(***************************************************************************)
(* co_term_license called on its own, on every overview and clock reading. *)
(***************************************************************************)
\* 'Oct 1, 2025 UTC' to 'Oct 9, 2025 UTC'; 'oct<TAB>6, 2025  gmt';
\* 'OCT 1<ARABIC-INDIC 2>, 2025 Utc', the twelfth; and 'Oct 6, 2025 ' with
\* edt, Cest, CET and IST
DayOverviews ==
    { [status |-> "OK",
       expirationDate |-> Chars(<<"O", "c", "t", " ">>) \o str(d)
                            \o Chars(<<",", " ", "2", "0", "2", "5", " ", "U", "T", "C">>)] :
         d \in 1..9 }
      \cup { [status |-> "OK",
              expirationDate |-> Chars(<<"o", "c", "t">>) \o <<9>>
                                   \o Chars(<<"6", ",", " ", "2", "0", "2", "5", " ", " ", "g", "m", "t">>)],
             [status |-> "OK",
              expirationDate |-> Chars(<<"O", "C", "T", " ", "1">>) \o <<1634>>
                                   \o Chars(<<",", " ", "2", "0", "2", "5", " ", "U", "t", "c">>)] }
      \cup { [status |-> "OK",
              expirationDate |-> Chars(<<"O", "c", "t", " ", "6", ",", " ", "2", "0", "2", "5", " ">>) \o w] :
                w \in {Chars(<<"e", "d", "t">>), Chars(<<"C", "e", "s", "t">>),
                       Chars(<<"C", "E", "T">>), Chars(<<"I", "S", "T">>)} }
      \cup {[status |-> "OK", expirationDate |-> DateGMT]}
      \cup OverviewChoices

DayNows ==
    { [Y |-> 2025, M |-> 10, D |-> d, sec |-> sc, usec |-> us] :
        d \in {1, 5, 6}, sc \in {0, 43200}, us \in {0, 1} }

InitDays ==
    /\ zone \in Zones
    /\ orgs = <<>>
    /\ RunInit("off")
    /\ fn_pc = "call"
    /\ fn_args \in [license_overview : DayOverviews, current_date : DayNows]
    /\ fn_result = <<>>

CallCoTerm ==
    /\ fn_pc = "call"
    /\ fn_result' = co_term_license("Acme", 1, fn_args.license_overview, fn_args.current_date)
    /\ fn_pc' = "return"
    /\ UNCHANGED <<runVars, fn_args, zone>>

NextDays == CallCoTerm

SpecDays == InitDays /\ [][NextDays]_vars

(***************************************************************************)
(* Properties.                                                             *)
(***************************************************************************)
Count(seq, v) == Cardinality({k \in 1..Len(seq) : seq[k] = v})
ModelOf(i) == orgs[i].licensing.model
\* the dispatch loop has gone through the whole list (the writer is reached)
LoopFinished ==
    /\ pc \notin {"off", "start"}
    /\ counter > Len(orgs)
    /\ ~(pc = "failed" /\ artifact = NoFile)
HoldsNoSheet(file) == file \in {NoFile, EmptyFile, Workbook(<<>>)}
SheetNames(book) == [i \in 1..Len(book) |-> book[i].name]
IsPerDeviceOrg(o) == o.licensing.model = "per-device"
PerDeviceOrgNames ==
    LET sel == SelectSeq(orgs, IsPerDeviceOrg) IN [i \in 1..Len(sel) |-> sel[i].name]
ColumnsOf(sheet) ==
    IF sheet.name = "Co-term Customers" THEN CoTermColumns ELSE PerDeviceColumns

\* C1: a run ends either done, with a saved workbook that has the co-term sheet
\* and one sheet for every list of the per-device bucket, or failed, with a
\* file that holds no sheet (no file at all, or one nothing was saved to).
C1_AllOrNothing ==
    /\ pc = "done" =>
         /\ artifact = Workbook(sheets)
         /\ Len(sheets) = 1 + Len(per_device_licenses)
    /\ pc = "failed" => HoldsNoSheet(artifact)

\* C2: every sheet written has the header row of its kind, the co-term sheet
\* the five co-term columns and an organization's sheet the eight per-device
\* columns, in order, whether or not it has data rows.
C2_HeaderAlwaysPresent ==
    \A i \in 1..Len(sheets) : sheets[i].header = ColumnsOf(sheets[i])

\* C3: in a completed run the sheets are the co-term sheet and then one sheet
\* per per-device organization, named after it, in the order of the
\* organization list.
C3_SheetSequence ==
    pc = "done" =>
      /\ artifact = Workbook(sheets)
      /\ SheetNames(sheets) = <<"Co-term Customers">> \o PerDeviceOrgNames

\* the records of the per-device bucket that carry organization id
EntriesWith(id) ==
    {k \in 1..Len(per_device_licenses) :
       \E r \in 1..Len(per_device_licenses[k]) :
          per_device_licenses[k][r]["Org. ID"] = PyInt(id)}
CoTermRecordsOf(id) ==
    {k \in 1..Len(coterm_licenses) : coterm_licenses[k]["Org. ID"] = PyInt(id)}

\* C4: when the dispatch loop has finished, a co-term organization has caused
\* exactly one overview fetch, has exactly one record in the co-term bucket and
\* no entry in the per-device bucket; a per-device organization has exactly one
\* entry in the per-device bucket (the list its one fetch produced) and no
\* co-term record; no organization is in both buckets.
C4_OneBucketEach ==
    LoopFinished =>
      /\ Len(per_device_licenses) = Len(licenses_calls)
      /\ \A i \in 1..Len(orgs) :
           LET id == orgs[i].id
           IN /\ ModelOf(i) = "co-term" =>
                   /\ Count(overview_calls, id) = 1
                   /\ Cardinality(CoTermRecordsOf(id)) = 1
                   /\ Count(licenses_calls, id) = 0
                   /\ EntriesWith(id) = {}
              /\ ModelOf(i) = "per-device" =>
                   /\ Count(licenses_calls, id) = 1
                   /\ EntriesWith(id) \subseteq {k \in 1..Len(licenses_calls) : licenses_calls[k] = id}
                   /\ Count(overview_calls, id) = 0
                   /\ CoTermRecordsOf(id) = {}
              /\ ~(CoTermRecordsOf(id) # {} /\ EntriesWith(id) # {})

C4_Witness ==
    /\ pc = "done"
    /\ \E i, j \in 1..Len(orgs) :
         /\ ModelOf(i) = "co-term" /\ ModelOf(j) = "per-device"
         /\ CoTermRecordsOf(orgs[i].id) # {}
         /\ EntriesWith(orgs[j].id) # {}

\* records is one record per entry, the k-th made from the k-th entry
BuiltFrom(records, entries) ==
    /\ Len(records) = Len(entries)
    /\ \A k \in 1..Len(entries) :
         /\ records[k]["License Type"] = PyStr(entries[k].licenseType)
         /\ records[k]["License Status"] = PyStr(entries[k].state)

\* C5: the list per_device_license returns for a license list of n entries has
\* n records, the i-th built from the i-th entry, entries without an
\* expirationDate included.
C5_OneRecordPerEntry ==
    /\ (pc = "per_device" /\ lic_pos > Len(licenses)) => BuiltFrom(org_licenses, licenses)
    /\ Len(fetched) = Len(per_device_licenses)
    /\ \A o \in 1..Len(fetched) : BuiltFrom(per_device_licenses[o], fetched[o])

C5_Witness ==
    \E o \in 1..Len(fetched) :
       /\ Len(fetched[o]) = 2
       /\ Len(per_device_licenses[o]) = 2
       /\ ~Truthy(fetched[o][1].expirationDate)
       /\ Truthy(fetched[o][2].expirationDate)

\* the instant a is not after the instant b; instants are <<day, sec, usec>>
InstantLeq(a, b) ==
    \/ a[1] < b[1]
    \/ a[1] = b[1] /\ a[2] < b[2]
    \/ a[1] = b[1] /\ a[2] = b[2] /\ a[3] <= b[3]

\* C6: Days Remaining of a co-term record is N/A or the decimal string of a
\* number n >= 1 with now + n days <= expiration < now + (n + 1) days; never
\* "0" and never negative.
C6_DaysRemainingPositive ==
    (fn_pc = "return" /\ IsOk(fn_result)) =>
      LET shown == fn_result[2]["Days Remaining"]
          now == fn_args.current_date
          target == StrptimeDisplay(fn_args.license_overview.expirationDate, TRUE)[2]
          at(n) == <<Ordinal(now) + n, now.sec, now.usec>>
          expiry == <<Ordinal(target), 0, 0>>
      IN \/ shown = PyStr(NA)
         \/ \E n \in 1..400 :
              /\ shown = PyStr(str(n))
              /\ InstantLeq(at(n), expiry)
              /\ ~InstantLeq(at(n + 1), expiry)

C6_Witness ==
    /\ fn_pc = "return"
    /\ IsOk(fn_result)
    /\ fn_result[2]["Days Remaining"] = PyStr(Chars(<<"5">>))
    /\ fn_result[2]["License Expiration"] = PyStr(Strip(ReplaceUTC(DateUTC1)))

\* the date a display string of the form Mon D, YYYY names
IsNA(item) == item["License Expiration"] = PyStr(NA)
Resolvable(item) == ~IsNA(item) /\ IsOk(StrptimeDisplay(item["License Expiration"][2], FALSE))
DateOf(item) == StrptimeDisplay(item["License Expiration"][2], FALSE)[2]
DateLeq(a, b) ==
    \/ a.Y < b.Y
    \/ a.Y = b.Y /\ a.M < b.M
    \/ a.Y = b.Y /\ a.M = b.M /\ a.D <= b.D

\* C7: sorting a list whose expirations are all N/A or resolvable never fails,
\* and gives a permutation of the list with the resolvable records in
\* ascending date order and every N/A record after all of them.
C7_SortedNaLast ==
    (fn_pc = "return" /\ \A i \in 1..Len(fn_args) : IsNA(fn_args[i]) \/ Resolvable(fn_args[i])) =>
      /\ IsOk(fn_result)
      /\ Len(fn_result[2]) = Len(fn_args)
      /\ {fn_result[2][i] : i \in 1..Len(fn_args)} = {fn_args[i] : i \in 1..Len(fn_args)}
      /\ \A i, j \in 1..Len(fn_args) :
           i < j =>
             /\ ~(IsNA(fn_result[2][i]) /\ ~IsNA(fn_result[2][j]))
             /\ (~IsNA(fn_result[2][i]) /\ ~IsNA(fn_result[2][j])) =>
                  DateLeq(DateOf(fn_result[2][i]), DateOf(fn_result[2][j]))

C7_Witness ==
    /\ fn_pc = "return"
    /\ IsOk(fn_result)
    /\ Len(fn_args) = 3
    /\ IsNA(fn_args[1]) /\ Resolvable(fn_args[2]) /\ Resolvable(fn_args[3])
    /\ DateOf(fn_args[2]) # DateOf(fn_args[3]) /\ DateLeq(DateOf(fn_args[3]), DateOf(fn_args[2]))
    /\ fn_result[2] = <<fn_args[3], fn_args[2], fn_args[1]>>

\* the network ids of the entries of a list that have an expirationDate
RECURSIVE NetworkIdsWithExpiration(_)
NetworkIdsWithExpiration(entries) ==
    IF Len(entries) = 0 THEN <<>>
    ELSE (IF Truthy(entries[1].expirationDate) THEN <<entries[1].networkId>> ELSE <<>>)
         \o NetworkIdsWithExpiration(Tail(entries))
RECURSIVE Flatten(_)
Flatten(lists) == IF Len(lists) = 0 THEN <<>> ELSE lists[1] \o Flatten(Tail(lists))
\* the entries the loops have been through, in order
EntriesDone == Flatten(fetched) \o SubSeq(licenses, 1, lic_pos - 1)
AllDefaults(record) ==
    /\ record["License Expiration"] = PyStr(NA)
    /\ record["Days Remaining"] = PyStr(NA)
    /\ record["Associated Device"] = PyStr(NA)
    /\ record["Associated Network"] = PyStr(NA)
DefaultsWhereAbsent(records, entries) ==
    \A k \in 1..Len(entries) :
       (k <= Len(records) /\ ~Truthy(entries[k].expirationDate)) => AllDefaults(records[k])

\* C8: the record of an entry without expirationDate (None or empty) has N/A
\* in License Expiration, Days Remaining, Associated Device and Associated
\* Network, and getNetwork is not called for it: the getNetwork calls of a run
\* are, in order, those of the entries gone through that have an
\* expirationDate; when the run is stopped by an entry, the only call more is
\* the failed one of that entry, if it has an expirationDate.
C8_NoLookupWithoutExpiration ==
    /\ DefaultsWhereAbsent(org_licenses, licenses)
    /\ \A o \in 1..Len(fetched) :
         o <= Len(per_device_licenses) => DefaultsWhereAbsent(per_device_licenses[o], fetched[o])
    /\ pc # "failed" => network_calls = NetworkIdsWithExpiration(EntriesDone)
    /\ pc = "failed" =>
         \/ network_calls = NetworkIdsWithExpiration(EntriesDone)
         \/ /\ lic_pos <= Len(licenses)
            /\ Truthy(licenses[lic_pos].expirationDate)
            /\ network_calls = NetworkIdsWithExpiration(EntriesDone)
                                 \o <<licenses[lic_pos].networkId>>

C8_Witness ==
    /\ pc = "done"
    /\ Len(network_calls) = 1
    /\ \E o \in 1..Len(fetched) :
         /\ Len(fetched[o]) = 2
         /\ \E k \in 1..2 : IsNone(fetched[o][k].expirationDate)
                            /\ AllDefaults(per_device_licenses[o][k])
         /\ \E k \in 1..2 : Truthy(fetched[o][k].expirationDate)

OtherIds == {orgs[i].id : i \in {j \in 1..Len(orgs) : IsOther[ModelOf(j)]}}
RowsWith(book, id) ==
    {<<i, r>> \in (1..Len(book)) \X (1..MaxLicenses + MaxOrgs) :
        r <= Len(book[i].rows) /\ book[i].rows[r]["Org. ID"] = PyInt(id)}

\* nothing of the organizations of another licensing model anywhere
NoTraceOfOthers ==
    \A id \in OtherIds :
       /\ Count(overview_calls, id) = 0
       /\ Count(licenses_calls, id) = 0
       /\ CoTermRecordsOf(id) = {}
       /\ EntriesWith(id) = {}
       /\ RowsWith(sheets, id) = {}

\* the step taken at an organization of another licensing model
SkipStep ==
    AtOrg(IsOther) =>
      /\ counter' = counter + 1
      /\ UNCHANGED <<orgs, pc, coterm_licenses, per_device_licenses, licenses, lic_pos,
                     org_licenses, fetched, fetched_total, overview_calls, licenses_calls,
                     network_calls, sheets, sheet_pos, artifact, error>>

\* C9: an organization whose licensing model is neither co-term nor per-device
\* is skipped: the only step at it moves the loop to the next organization and
\* changes nothing else (no fetch, no record, no error), and no call, record or
\* sheet row ever carries its id.
C9_OtherModelSkipped == []NoTraceOfOthers /\ [][SkipStep]_vars

C9_Witness ==
    /\ pc = "done"
    /\ Len(orgs) = 2
    /\ IsOther[ModelOf(1)]
    /\ ModelOf(2) = "co-term"
    /\ Len(coterm_licenses) = 1
    /\ Len(sheets[1].rows) = 1

StrOnly(record) ==
    /\ IsStr(record["Associated Device"])
    /\ IsStr(record["Associated Network"])

\* C10: every per-device record has a string (a serial or N/A) as Associated
\* Device and a string (a name or N/A) as Associated Network, and no run fails
\* at an entry that has a well-formed expirationDate and no networkId.
C10_DeviceAndNetworkStrings ==
    /\ \A k \in 1..Len(org_licenses) : StrOnly(org_licenses[k])
    /\ \A o \in 1..Len(per_device_licenses) :
         \A k \in 1..Len(per_device_licenses[o]) : StrOnly(per_device_licenses[o][k])
    /\ ~(/\ pc = "failed"
         /\ lic_pos <= Len(licenses)
         /\ Truthy(licenses[lic_pos].expirationDate)
         /\ IsOk(StrptimeIso(licenses[lic_pos].expirationDate[2]))
         /\ IsNone(licenses[lic_pos].networkId))

====
